---- MODULE Spec2Model ----
(***************************************************************************)
(* The generic resource object of kubernetes-py (K8sObject) and its two    *)
(* wrappers K8sHorizontalPodAutoscaler and K8sStatefulSet, as a state      *)
(* machine: one wrapper object `obj`, on which a caller invokes the        *)
(* lifecycle operations one after the other, and `last`, the record of the *)
(* most recent call (receiver before the call, transport outcomes used,    *)
(* requests issued, exception raised, value returned).                     *)
(*                                                                         *)
(* Python strings are sequences of characters; None is the value `None`,   *)
(* which is no string over the alphabet.                                   *)
(***************************************************************************)
EXTENDS Integers, Sequences, FiniteSets, TLC

VARIABLES obj, last

vars == <<obj, last>>

\* ------------------------------------------------------------------ bounds

\* Longest item sequence a list response carries.
MaxItems == 2

\* ------------------------------------------------------------------ values

None == <<"None">>

NoErr == "none"

\* Names given to wrappers, and names the server puts in a document.
Names == {<<"a">>, <<"b">>}

\* Names of the items of a list response, and the patterns list() is given.
ItemNames == {<<"a">>, <<"b">>, <<"a", "b">>}

Patterns == {None, <<>>, <<"a">>, <<"a", "b">>}

Namespaces == {"default", "kube-system"}

Classes == {"K8sObject", "K8sHorizontalPodAutoscaler", "K8sStatefulSet"}

VALID_K8s_OBJS_plus_hpa ==
    {"Deployment", "PersistentVolume", "Pod", "ReplicaSet",
     "ReplicationController", "Secret", "Service", "Volume",
     "HorizontalPodAutoscaler"}

VALID_K8s_OBJS ==
    {"Deployment", "PersistentVolume", "Pod", "ReplicaSet",
     "ReplicationController", "Secret", "Service", "Volume"}

\* The obj_type each class hands to K8sObject.__init__; a direct user of
\* K8sObject chooses it.
ObjTypeOf(cls, chosen) ==
    CASE cls = "K8sHorizontalPodAutoscaler" -> "HorizontalPodAutoscaler"
      [] cls = "K8sStatefulSet" -> "StatefulSet"
      [] OTHER -> chosen

\* What K8sConfig() does when no config is given: it returns a configuration,
\* or fails to read one (IOError), or rejects what it read (SyntaxError).
K8sConfigOutcomes == {"ok", "IOError", "SyntaxError"}

\* The obj_type arguments tried on K8sObject directly.
ObjTypesTried == {"Pod", "HorizontalPodAutoscaler", "Bogus"}

\* ------------------------------------------------------------------ documents

\* A wire document: its metadata name, resourceVersion and uid.
Docs == [name : Names \cup {None}, rv : {None, <<"7">>}, uid : {None, <<"u">>}]

EmptyDoc == [name |-> None, rv |-> None, uid |-> None]

\* The documents the server returns: the coordination fields are assigned
\* together, and a document may lack its metadata.
ServerDocs == {d \in Docs : (d.rv = None) = (d.uid = None) /\ d.name # <<"b">>}

\* The document model a wrapper holds; inst tells one model instance from
\* the instance it replaced.
Models == [inst : {0, 1}, name : Names \cup {None}, rv : {None, <<"7">>},
           uid : {None, <<"u">>}]

\* HorizontalPodAutoscaler(model) / StatefulSet(model): a new instance,
\* populated field by field from the document.
BuildModel(doc, old) ==
    [inst |-> 1 - old.inst, name |-> doc.name, rv |-> doc.rv, uid |-> doc.uid]

\* model.serialize(): the wire document of the model.
Serialize(m) == [name |-> m.name, rv |-> m.rv, uid |-> m.uid]

\* str_to_class(obj_type): a fresh, empty model.
FreshModel == [inst |-> 0, name |-> None, rv |-> None, uid |-> None]

Wrapper(cls, kind, ns, name) ==
    [cls |-> cls, kind |-> kind, ns |-> ns,
     model |-> [FreshModel EXCEPT !.name = name]]

\* ------------------------------------------------------------------ transport

\* HttpRequest.send(): raises IOError (io), or returns the state
\* {success, status, data}; data is a document or carries the items.
Statuses == {0, 200, 201, 401, 404, 409, 422, 500}

SuccessCodes == {200, 201}

Resp(status, doc, items) ==
    [io |-> FALSE, success |-> status \in SuccessCodes, status |-> status,
     doc |-> doc, items |-> items]

IOFail == [io |-> TRUE, success |-> FALSE, status |-> 0, doc |-> EmptyDoc,
           items |-> <<>>]

Unused == [io |-> FALSE, success |-> FALSE, status |-> 0, doc |-> EmptyDoc,
           items |-> <<"unused">>]

ItemLists == UNION {[1..k -> ItemNames] : k \in 0..MaxItems}

\* What the transport can answer to POST, PUT and DELETE.
OutcomesPlain == {IOFail} \cup {Resp(s, EmptyDoc, <<>>) : s \in Statuses}

\* What the transport can answer to GET {base}/{name}.
OutcomesGet ==
    {IOFail}
    \cup {Resp(s, EmptyDoc, <<>>) : s \in Statuses \ SuccessCodes}
    \cup {Resp(200, d, <<>>) : d \in ServerDocs}

\* What the transport can answer to GET {base}.
OutcomesList ==
    {IOFail}
    \cup {Resp(s, EmptyDoc, <<>>) : s \in Statuses \ SuccessCodes}
    \cup {Resp(200, EmptyDoc, it) : it \in ItemLists}

Req(method, url, body) == [method |-> method, url |-> url, body |-> body]

BaseUrl(o) == <<o.kind>>

ItemUrl(o) == <<o.kind, o.model.name>>

\* ------------------------------------------------------------------ K8sObject

\* request(): the exception it raises on the transport outcome t.
request_nocatch(t) == IF t.io THEN "IOError" ELSE NoErr

request(t) == IF t.io THEN "BadRequestException" ELSE NoErr

\* __init__: config is "None", "K8sConfig" or "other" (some other type);
\* cfgDefault is what K8sConfig() does when config is None; urlOk is whether
\* BaseUrls yields a base URL.
K8sObject_init(cls, config, cfgDefault, obj_type, ns, name, urlOk) ==
    IF config = "other"
    THEN [err |-> "SyntaxError", built |-> {}, obj |-> <<>>]
    ELSE IF config = "None" /\ cfgDefault # "ok"
    THEN [err |-> cfgDefault, built |-> {}, obj |-> <<>>]
    ELSE IF obj_type \notin VALID_K8s_OBJS
    THEN [err |-> "SyntaxError", built |-> {"config"}, obj |-> <<>>]
    ELSE IF ~urlOk
    THEN [err |-> "Exception", built |-> {"config", "model"}, obj |-> <<>>]
    ELSE [err |-> NoErr, built |-> {"config", "model", "base_url"},
          obj |-> <<Wrapper(cls, obj_type, ns, name)>>]

\* __eq__(self, other): "True", "False" or "NotImplemented".
IsInstance(cls, of) == cls = of \/ of = "K8sObject"

eq_name_only(self, other) ==
    IF IsInstance(other.cls, self.cls)
    THEN IF self.model.name = other.model.name THEN "True" ELSE "False"
    ELSE "NotImplemented"

eq(self, other) ==
    IF IsInstance(other.cls, self.cls)
    THEN IF self.ns = other.ns /\ self.model.name = other.model.name
         THEN "True" ELSE "False"
    ELSE "NotImplemented"

\* self == other for two distinct objects: __eq__, then the reflected
\* __eq__, then the default comparison by identity.
PyEquals(self, other) ==
    IF eq(self, other) # "NotImplemented" THEN eq(self, other)
    ELSE IF eq(other, self) # "NotImplemented" THEN eq(other, self)
    ELSE "False"

\* The classification of a non-success CREATE response.
CreateError_409_dropped(status) ==
    CASE status = 401 -> "UnauthorizedException"
      [] status = 422 -> "UnprocessableEntityException"
      [] OTHER -> "BadRequestException"

CreateError(status) ==
    CASE status = 401 -> "UnauthorizedException"
      [] status = 409 -> "AlreadyExistsException"
      [] status = 422 -> "UnprocessableEntityException"
      [] OTHER -> "BadRequestException"

Result(o, err, sent, ret, items) ==
    [obj |-> o, err |-> err, sent |-> sent, ret |-> ret, items |-> items]

\* list()
K8sObject_list_422_dropped(o, t) ==
    LET req == Req("GET", BaseUrl(o), <<>>) IN
    IF request(t) # NoErr THEN Result(o, request(t), <<req>>, "none", <<>>)
    ELSE IF t.status = 0 THEN Result(o, "Exception", <<req>>, "none", <<>>)
    ELSE IF ~t.success
    THEN Result(o, CASE t.status = 401 -> "UnauthorizedException"
                     [] t.status = 409 -> "AlreadyExistsException"
                     [] OTHER -> "BadRequestException",
                <<req>>, "none", <<>>)
    ELSE Result(o, NoErr, <<req>>, "items", t.items)

K8sObject_list(o, t) ==
    LET req == Req("GET", BaseUrl(o), <<>>) IN
    IF request(t) # NoErr THEN Result(o, request(t), <<req>>, "none", <<>>)
    ELSE IF t.status = 0 THEN Result(o, "Exception", <<req>>, "none", <<>>)
    ELSE IF ~t.success
    THEN Result(o, CASE t.status = 401 -> "UnauthorizedException"
                     [] t.status = 409 -> "AlreadyExistsException"
                     [] t.status = 422 -> "UnprocessableEntityException"
                     [] OTHER -> "BadRequestException",
                <<req>>, "none", <<>>)
    ELSE Result(o, NoErr, <<req>>, "items", t.items)

\* get_model(): items carries the fetched document.
get_model(o, t) ==
    LET req == Req("GET", ItemUrl(o), <<>>) IN
    IF o.model.name = None THEN Result(o, "SyntaxError", <<>>, "none", <<>>)
    ELSE IF request(t) # NoErr
    THEN Result(o, request(t), <<req>>, "none", <<>>)
    ELSE IF ~t.success
    THEN Result(o, "NotFoundException", <<req>>, "none", <<>>)
    ELSE Result(o, NoErr, <<req>>, "doc", <<t.doc>>)

\* create()
K8sObject_create_keeps_rv(o, t) ==
    LET req == Req("POST", BaseUrl(o), <<Serialize(o.model)>>) IN
    IF o.model.name = None THEN Result(o, "SyntaxError", <<>>, "none", <<>>)
    ELSE IF request(t) # NoErr
    THEN Result(o, request(t), <<req>>, "none", <<>>)
    ELSE IF ~t.success
    THEN Result(o, CreateError(t.status), <<req>>, "none", <<>>)
    ELSE Result(o, NoErr, <<req>>, "self", <<>>)

K8sObject_create(o, t) ==
    LET o1 == [o EXCEPT !.model.rv = None]
        req == Req("POST", BaseUrl(o1), <<Serialize(o1.model)>>) IN
    IF o.model.name = None THEN Result(o, "SyntaxError", <<>>, "none", <<>>)
    ELSE IF request(t) # NoErr
    THEN Result(o1, request(t), <<req>>, "none", <<>>)
    ELSE IF ~t.success
    THEN Result(o1, CreateError(t.status), <<req>>, "none", <<>>)
    ELSE Result(o1, NoErr, <<req>>, "self", <<>>)

\* update()
K8sObject_update_keeps_uid(o, t) ==
    LET req == Req("PUT", ItemUrl(o), <<Serialize(o.model)>>) IN
    IF o.model.name = None THEN Result(o, "SyntaxError", <<>>, "none", <<>>)
    ELSE IF request(t) # NoErr
    THEN Result(o, request(t), <<req>>, "none", <<>>)
    ELSE IF ~t.success
    THEN Result(o, CASE t.status = 404 -> "NotFoundException"
                     [] t.status = 422 -> "UnprocessableEntityException"
                     [] OTHER -> "BadRequestException",
                <<req>>, "none", <<>>)
    ELSE Result(o, NoErr, <<req>>, "self", <<>>)

K8sObject_update(o, t) ==
    LET o1 == [o EXCEPT !.model.uid = None]
        req == Req("PUT", ItemUrl(o1), <<Serialize(o1.model)>>) IN
    IF o.model.name = None THEN Result(o, "SyntaxError", <<>>, "none", <<>>)
    ELSE IF request(t) # NoErr
    THEN Result(o1, request(t), <<req>>, "none", <<>>)
    ELSE IF ~t.success
    THEN Result(o1, CASE t.status = 404 -> "NotFoundException"
                      [] t.status = 422 -> "UnprocessableEntityException"
                      [] OTHER -> "BadRequestException",
                <<req>>, "none", <<>>)
    ELSE Result(o1, NoErr, <<req>>, "self", <<>>)

\* delete()
K8sObject_delete_unchecked(o, t) ==
    LET req == Req("DELETE", ItemUrl(o), <<"DeleteOptions">>) IN
    IF request(t) # NoErr THEN Result(o, request(t), <<req>>, "none", <<>>)
    ELSE IF ~t.success
    THEN Result(o, IF t.status = 404 THEN "NotFoundException"
                   ELSE "BadRequestException",
                <<req>>, "none", <<>>)
    ELSE Result(o, NoErr, <<req>>, "self", <<>>)

K8sObject_delete(o, t) ==
    LET req == Req("DELETE", ItemUrl(o), <<"DeleteOptions">>) IN
    IF o.model.name = None THEN Result(o, "SyntaxError", <<>>, "none", <<>>)
    ELSE IF request(t) # NoErr THEN Result(o, request(t), <<req>>, "none", <<>>)
    ELSE IF ~t.success
    THEN Result(o, IF t.status = 404 THEN "NotFoundException"
                   ELSE "BadRequestException",
                <<req>>, "none", <<>>)
    ELSE Result(o, NoErr, <<req>>, "self", <<>>)

\* ------------------------------------------------------------------ wrappers

\* K8sHorizontalPodAutoscaler.get / K8sStatefulSet.get
get_assign_first(o, t) ==
    LET r == get_model(o, t) IN
    IF r.err # NoErr
    THEN Result([o EXCEPT !.model = BuildModel(EmptyDoc, o.model)],
                r.err, r.sent, "none", <<>>)
    ELSE Result([o EXCEPT !.model = BuildModel(r.items[1], o.model)],
                NoErr, r.sent, "self", <<>>)

get(o, t) ==
    LET r == get_model(o, t) IN
    IF r.err # NoErr THEN Result(o, r.err, r.sent, "none", <<>>)
    ELSE Result([o EXCEPT !.model = BuildModel(r.items[1], o.model)],
                NoErr, r.sent, "self", <<>>)

\* create()/update() as the receiver's class defines them: the wrappers call
\* the generic version and then get().
ThenGet_unconditional(r, t2) ==
    LET g == get(r.obj, t2) IN
    Result(g.obj, IF r.err # NoErr THEN r.err ELSE g.err, r.sent \o g.sent,
           IF r.err = NoErr /\ g.err = NoErr THEN "self" ELSE "none", <<>>)

ThenGet(r, t2) ==
    IF r.err # NoErr THEN r
    ELSE LET g == get(r.obj, t2) IN
         Result(g.obj, g.err, r.sent \o g.sent,
                IF g.err = NoErr THEN "self" ELSE "none", <<>>)

create(o, t1, t2) ==
    IF o.cls = "K8sObject" THEN K8sObject_create(o, t1)
    ELSE ThenGet(K8sObject_create(o, t1), t2)

update(o, t1, t2) ==
    IF o.cls = "K8sObject" THEN K8sObject_update(o, t1)
    ELSE ThenGet(K8sObject_update(o, t1), t2)

\* pattern in name
Contains(name, pattern) ==
    \E i \in 0..(Len(name) - Len(pattern)) :
        SubSeq(name, i + 1, i + Len(pattern)) = pattern

RECURSIVE Filter(_, _)
Filter(items, pattern) ==
    IF items = <<>> THEN <<>>
    ELSE IF pattern = None \/ Contains(Head(items), pattern)
    THEN <<Head(items)>> \o Filter(Tail(items), pattern)
    ELSE Filter(Tail(items), pattern)

\* K8sHorizontalPodAutoscaler.list(pattern): every item kept is wrapped in a
\* new K8sHorizontalPodAutoscaler(config=self.config, name=x.name).
K8sHorizontalPodAutoscaler_list(o, pattern, t) ==
    LET r == K8sObject_list(o, t)
        kept == Filter(r.items, pattern)
        z == K8sObject_init("K8sHorizontalPodAutoscaler", "K8sConfig", "ok",
                            "HorizontalPodAutoscaler", o.ns,
                            IF kept = <<>> THEN None ELSE Head(kept), TRUE)
    IN  IF r.err # NoErr THEN r
        ELSE IF kept # <<>> /\ z.err # NoErr
        THEN Result(o, z.err, r.sent, "none", <<>>)
        ELSE Result(o, NoErr, r.sent, "items", kept)

list(o, pattern, t) ==
    IF o.cls = "K8sHorizontalPodAutoscaler"
    THEN K8sHorizontalPodAutoscaler_list(o, pattern, t)
    ELSE K8sObject_list(o, t)

\* ------------------------------------------------------------------ state

Called(op, pre, arg, io, r) ==
    [op |-> op, pre |-> pre, arg |-> arg, io |-> io, sent |-> r.sent,
     err |-> r.err, ret |-> r.ret, items |-> r.items]

\* The receivers: an object of each class holding the fields __init__
\* assigns, named or not. K8sObject.__init__ as it stands rejects the obj_type
\* of the two wrappers (see Construct); their methods are analysed on a
\* receiver all the same, as src/tests/test_k8s_hpa.py:62-70 uses one.
Receivers ==
    {Wrapper(c, ObjTypeOf(c, k), ns, n) :
        c \in Classes, k \in {"Pod"}, ns \in Namespaces,
        n \in Names \cup {None}}

Init ==
    /\ obj \in Receivers
    /\ last = Called("none", obj, <<>>, <<>>,
                     Result(obj, NoErr, <<>>, "none", <<>>))

\* cls(config=..., name=...), or K8sObject(config, obj_type, name)
Construct ==
    \E c \in Classes, config \in {"None", "K8sConfig", "other"},
       n \in {None, <<"a">>} :
    \E k \in IF c = "K8sObject" THEN ObjTypesTried ELSE {"Pod"},
       cfgDefault \in IF config = "None" THEN K8sConfigOutcomes ELSE {"ok"} :
    \E ns \in IF ObjTypeOf(c, k) \in VALID_K8s_OBJS THEN Namespaces
               ELSE {"default"},
       urlOk \in IF ObjTypeOf(c, k) \in VALID_K8s_OBJS THEN BOOLEAN
                 ELSE {TRUE} :
        LET r == K8sObject_init(c, config, cfgDefault, ObjTypeOf(c, k), ns, n,
                                urlOk)
        IN  /\ obj' = IF r.err = NoErr THEN r.obj[1] ELSE obj
            /\ last' = [op |-> "init", pre |-> obj,
                        arg |-> [cls |-> c, config |-> config, name |-> n],
                        io |-> <<>>, sent |-> <<>>, err |-> r.err,
                        ret |-> IF r.err = NoErr THEN "object" ELSE "none",
                        items |-> r.built]

\* obj.name = n
SetName ==
    \E n \in Names \cup {None} :
        /\ obj' = [obj EXCEPT !.model.name = n]
        /\ last' = Called("set_name", obj, <<n>>, <<>>,
                          Result(obj, NoErr, <<>>, "none", <<>>))

\* obj.model = HorizontalPodAutoscaler(doc), as the tests do
SetModel ==
    \E d \in Docs :
        /\ obj' = [obj EXCEPT !.model = BuildModel(d, obj.model)]
        /\ last' = Called("set_model", obj, <<d>>, <<>>,
                          Result(obj, NoErr, <<>>, "none", <<>>))

Create ==
    \E t1 \in OutcomesPlain :
    \E t2 \in IF obj.cls # "K8sObject" /\ K8sObject_create(obj, t1).err = NoErr
               THEN OutcomesGet ELSE {Unused} :
        LET r == create(obj, t1, t2) IN
        /\ obj' = r.obj
        /\ last' = Called("create", obj, <<>>,
                          IF Len(r.sent) = 2 THEN <<t1, t2>>
                          ELSE IF Len(r.sent) = 1 THEN <<t1>> ELSE <<>>, r)

Update ==
    \E t1 \in OutcomesPlain :
    \E t2 \in IF obj.cls # "K8sObject" /\ K8sObject_update(obj, t1).err = NoErr
               THEN OutcomesGet ELSE {Unused} :
        LET r == update(obj, t1, t2) IN
        /\ obj' = r.obj
        /\ last' = Called("update", obj, <<>>,
                          IF Len(r.sent) = 2 THEN <<t1, t2>>
                          ELSE IF Len(r.sent) = 1 THEN <<t1>> ELSE <<>>, r)

Delete ==
    \E t \in OutcomesPlain :
        LET r == K8sObject_delete(obj, t) IN
        /\ obj' = r.obj
        /\ last' = Called("delete", obj, <<>>,
                          IF Len(r.sent) = 1 THEN <<t>> ELSE <<>>, r)

GetModel ==
    \E t \in OutcomesGet :
        LET r == get_model(obj, t) IN
        /\ obj' = r.obj
        /\ last' = Called("get_model", obj, <<>>,
                          IF Len(r.sent) = 1 THEN <<t>> ELSE <<>>, r)

\* get() is defined by the wrappers only.
Get ==
    /\ obj.cls # "K8sObject"
    /\ \E t \in OutcomesGet :
        LET r == get(obj, t) IN
        /\ obj' = r.obj
        /\ last' = Called("get", obj, <<>>,
                          IF Len(r.sent) = 1 THEN <<t>> ELSE <<>>, r)

\* list(), and list(pattern) on the autoscaler wrapper
List ==
    \E t \in OutcomesList,
       p \in IF obj.cls = "K8sHorizontalPodAutoscaler" THEN Patterns
             ELSE {None} :
        LET r == list(obj, p, t) IN
        /\ obj' = r.obj
        /\ last' = Called("list", obj, <<p>>, <<t>>, r)

\* obj == other, other a distinct object holding a model of its own
Equals ==
    \E other \in Receivers :
        /\ obj' = obj
        /\ last' = Called("eq", obj, <<other>>, <<>>,
                          Result(obj, NoErr, <<>>, PyEquals(obj, other), <<>>))

Next ==
    \/ Construct
    \/ SetName
    \/ SetModel
    \/ Create
    \/ Update
    \/ Delete
    \/ GetModel
    \/ Get
    \/ List
    \/ Equals

Spec == Init /\ [][Next]_vars

\* ------------------------------------------------------------------ claims

\* The transport outcome of the i-th request of the last call.
Answered(i) == Len(last.io) >= i /\ ~last.io[i].io

\* C1: with the wrapper's name null, create(), update() and delete() raise
\* SyntaxError and issue no request, and leave the wrapper as it was.
C1_NullNameRejected ==
    (last.op \in {"create", "update", "delete"}
        /\ last.pre.model.name = None)
    => (last.err = "SyntaxError" /\ last.sent = <<>> /\ obj = last.pre)

C1_Witness ==
    /\ last.op = "delete"
    /\ last.pre.model.name = None
    /\ last.err = "SyntaxError"

\* C2: create() with a name set sends its POST; a non-success response raises
\* by status: 401 unauthorized, 409 already-exists, 422 unprocessable-entity,
\* any other non-2xx status bad-request; on a success response the generic
\* create() raises nothing and returns the object.
C2_CreateClassified ==
    (last.op = "create" /\ last.pre.model.name # None)
    => /\ Len(last.sent) >= 1
       /\ (Answered(1) /\ ~last.io[1].success) =>
            LET s == last.io[1].status IN
            /\ s = 401 => last.err = "UnauthorizedException"
            /\ s = 409 => last.err = "AlreadyExistsException"
            /\ s = 422 => last.err = "UnprocessableEntityException"
            /\ (s \notin {401, 409, 422} /\ s \notin 200..299)
                    => last.err = "BadRequestException"
       /\ (Answered(1) /\ last.io[1].success /\ last.pre.cls = "K8sObject")
            => (last.err = NoErr /\ last.ret = "self")

C2_Witness ==
    /\ last.op = "create"
    /\ Answered(1)
    /\ last.io[1].status = 409
    /\ last.err = "AlreadyExistsException"

\* C3: get() answered 404 raises not-found and leaves the wrapper and the
\* model it holds as they were; get() replaces the model only when its GET
\* succeeded.
C3_GetNotFoundKeepsModel ==
    last.op = "get"
    => /\ (Answered(1) /\ last.io[1].status = 404)
            => (last.err = "NotFoundException" /\ obj = last.pre)
       /\ obj.model # last.pre.model
            => (Answered(1) /\ last.io[1].success /\ last.err = NoErr)

C3_Witness ==
    /\ last.op = "get"
    /\ Answered(1)
    /\ last.io[1].status = 404
    /\ last.pre.model.uid # None
    /\ last.err = "NotFoundException"

\* C4: update() on a named wrapper whose model has a UID sends exactly one
\* PUT, first, and its payload has no UID.
C4_UpdateClearsUid ==
    (last.op = "update" /\ last.pre.model.name # None
        /\ last.pre.model.uid # None)
    => /\ Len(last.sent) >= 1
       /\ \A i \in 1..Len(last.sent) :
            (last.sent[i].method = "PUT") = (i = 1)
       /\ last.sent[1].body[1].uid = None

C4_Witness ==
    /\ last.op = "update"
    /\ last.pre.model.uid # None
    /\ last.pre.model.rv # None
    /\ Len(last.sent) >= 1
    /\ last.sent[1].method = "PUT"

\* C5: create() on a named wrapper whose model has a resource version sends
\* exactly one POST, first, and its payload has no resource version.
C5_CreateClearsResourceVersion ==
    (last.op = "create" /\ last.pre.model.name # None
        /\ last.pre.model.rv # None)
    => /\ Len(last.sent) >= 1
       /\ \A i \in 1..Len(last.sent) :
            (last.sent[i].method = "POST") = (i = 1)
       /\ last.sent[1].body[1].rv = None

C5_Witness ==
    /\ last.op = "create"
    /\ last.pre.model.rv # None
    /\ last.pre.model.uid # None
    /\ Len(last.sent) >= 1
    /\ last.sent[1].method = "POST"

C8_ListErrorsAsCreate ==
    (last.op = "list" /\ Answered(1) /\ ~last.io[1].success)
    => LET s == last.io[1].status IN
       /\ s = 401 => last.err = "UnauthorizedException"
       /\ s = 409 => last.err = "AlreadyExistsException"
       /\ s = 422 => last.err = "UnprocessableEntityException"
       /\ s \notin {401, 409, 422} => last.err = "BadRequestException"

\* C8, amended: list() raises a plain Exception on a response that carries no
\* status (a status that is false in a condition); on every non-success
\* response that carries a status it raises by create()'s four-way mapping.
C8_ListErrorsAsCreateWhenStatusGiven ==
    (last.op = "list" /\ Answered(1) /\ ~last.io[1].success)
    => LET s == last.io[1].status IN
       /\ s = 0 => last.err = "Exception"
       /\ s = 401 => last.err = "UnauthorizedException"
       /\ s = 409 => last.err = "AlreadyExistsException"
       /\ s = 422 => last.err = "UnprocessableEntityException"
       /\ s \notin {0, 401, 409, 422} => last.err = "BadRequestException"

C8_Witness ==
    /\ last.op = "list"
    /\ Answered(1)
    /\ last.io[1].status = 422
    /\ last.err = "UnprocessableEntityException"

\* C9: when the transport fails with an I/O error during create, get, update,
\* delete or list, the call raises bad-request and the model held is the
\* instance held before the call, under the same name.
C9_IOErrorIsBadRequest ==
    (last.op \in {"create", "get", "get_model", "update", "delete", "list"}
        /\ \E i \in 1..Len(last.io) : last.io[i].io)
    => /\ last.err = "BadRequestException"
       /\ obj.model.inst = last.pre.model.inst
       /\ obj.model.name = last.pre.model.name

C9_Witness ==
    /\ last.op = "create"
    /\ Len(last.io) = 2
    /\ last.io[2].io
    /\ last.err = "BadRequestException"

C11_WrapperCreateUpdateThenGet ==
    (last.op \in {"create", "update"} /\ last.pre.cls # "K8sObject"
        /\ last.pre.model.name # None)
    => LET first == IF last.op = "create"
                    THEN [method |-> "POST", url |-> <<last.pre.kind>>]
                    ELSE [method |-> "PUT",
                          url |-> <<last.pre.kind, last.pre.model.name>>]
       IN
       /\ Len(last.sent) >= 1
       /\ last.sent[1].method = first.method
       /\ last.sent[1].url = first.url
       /\ IF Answered(1) /\ last.io[1].success
          THEN /\ Len(last.sent) = 2
               /\ last.sent[2] = [method |-> "GET",
                                  url |-> <<last.pre.kind,
                                            last.pre.model.name>>,
                                  body |-> <<>>]
               /\ (Answered(2) /\ last.io[2].success)
                    => /\ last.err = NoErr
                       /\ obj.model.inst # last.pre.model.inst
                       /\ obj.model.name = last.io[2].doc.name
                       /\ obj.model.rv = last.io[2].doc.rv
                       /\ obj.model.uid = last.io[2].doc.uid
          ELSE /\ Len(last.sent) = 1
               /\ last.err # NoErr
               /\ obj.model.inst = last.pre.model.inst
               /\ obj.model.name = last.pre.model.name

C11_Witness ==
    /\ last.op = "create"
    /\ last.pre.cls = "K8sStatefulSet"
    /\ Len(last.sent) = 2
    /\ Answered(2)
    /\ last.io[2].success
    /\ last.pre.model.uid = None
    /\ obj.model.uid # None

====
